---- MODULE Spec2Model ----
(***************************************************************************)
(* Model of the release-extraction and feed-assembly pipeline of           *)
(* bandcamp-rss (src/index.js, lines 1-958: scrapeArtistReleases,          *)
(* scrapeBandcamp, scrapeSoundcloud, scrapeSpotify, generateFeedForFile).  *)
(*                                                                         *)
(* Strings are TLA+ strings; the JavaScript string methods the code uses   *)
(* (includes, startsWith, replace with a global pattern) are operators     *)
(* computed character by character.  Dates are integers on the scale of    *)
(* the clock; an Invalid Date is the value NaN.                            *)
(***************************************************************************)
EXTENDS Integers, Sequences, FiniteSets, TLC

VARIABLES
  pc,                \* position of the run inside generateFeedForFile
  clock,             \* the wall clock read by new Date()
  artists,           \* the artists array of the input document
  ai,                \* the number of artists the loop has taken up
  ex,                \* the activation of the extractor that is running
  feedItems,         \* feed.items
  totalReleaseCount, \* totalReleaseCount of generateFeedForFile
  written,           \* the document written to outputFile, or NoDoc
  rssOutput,         \* what feed.rss2() returned, or NoRss
  san,               \* input and results of the sanitization chains
  albumPage,         \* the detail page whose release date is being resolved
  resolvedDate,      \* releaseDate of scrapeBandcamp once that page is dealt with
  log,               \* what the run has written to the console
  artistsDir,        \* the documents of the artists directory, by path
  jsonFiles,         \* jsonFiles of processArtistFiles
  fileIdx,           \* the number of files the loop over jsonFiles has taken up
  dist,              \* the feed files written below the output directory
  exitCode,          \* the exit code of the process, or Running
  inFlight           \* the HTTP requests sent and not yet answered

runVars == <<artistsDir, jsonFiles, fileIdx, dist, exitCode, inFlight>>

dateVars == <<albumPage, resolvedDate>>

vars == <<pc, clock, artists, ai, ex, feedItems, totalReleaseCount,
          written, rssOutput, san, dateVars, log, runVars>>

(***************************************************************************)
(* Bounds                                                                  *)
(***************************************************************************)
MaxGrid == 3         \* items a listing page exposes
MaxCap == 2          \* largest maxReleases an artist record specifies
MaxClock == 2        \* last clock value of a run
MaxLen == 4          \* length of the strings given to the sanitizers
MaxFiles == 2        \* documents below the artists directory

Min(a, b) == IF a < b THEN a ELSE b

(***************************************************************************)
(* JavaScript string methods                                               *)
(***************************************************************************)
\* String.prototype.includes
Includes(s, sub) ==
  \E k \in 1..(Len(s) - Len(sub) + 1) : SubSeq(s, k, k + Len(sub) - 1) = sub

\* String.prototype.startsWith
StartsWith(s, p) == Len(s) >= Len(p) /\ SubSeq(s, 1, Len(p)) = p

\* String.prototype.replace(/c/g, r) for a one-character pattern c
RECURSIVE ReplaceAll(_, _, _)
ReplaceAll(s, c, r) ==
  IF s = "" THEN ""
  ELSE (IF SubSeq(s, 1, 1) = c THEN r ELSE SubSeq(s, 1, 1))
         \o ReplaceAll(SubSeq(s, 2, Len(s)), c, r)

(***************************************************************************)
(* Sanitization chains of generateFeedForFile                              *)
(***************************************************************************)
\* The mutation escapes the ampersand last, so it re-escapes the entities
\* the earlier replacements produced.
EscapeXmlAmpLast(s) ==
  ReplaceAll(ReplaceAll(ReplaceAll(ReplaceAll(ReplaceAll(s,
    "<", "&lt;"), ">", "&gt;"), "\"", "&quot;"), "'", "&apos;"), "&", "&amp;")

\* .replace(/&/g,'&amp;').replace(/</g,'&lt;').replace(/>/g,'&gt;')
\* .replace(/"/g,'&quot;').replace(/'/g,'&apos;')
EscapeXml(s) ==
  ReplaceAll(ReplaceAll(ReplaceAll(ReplaceAll(ReplaceAll(s,
    "&", "&amp;"), "<", "&lt;"), ">", "&gt;"), "\"", "&quot;"), "'", "&apos;")

\* safeUrl, safeImageUrl, safeArtistUrl: the chain above, then = to %3D
EscapeUrl(s) == ReplaceAll(EscapeXml(s), "=", "%3D")

\* A standard XML-entity decoder: one pass, left to right, over the five
\* predefined entities.
RECURSIVE DecodeXml(_)
DecodeXml(s) ==
  IF s = "" THEN ""
  ELSE IF StartsWith(s, "&amp;") THEN "&" \o DecodeXml(SubSeq(s, 6, Len(s)))
  ELSE IF StartsWith(s, "&lt;") THEN "<" \o DecodeXml(SubSeq(s, 5, Len(s)))
  ELSE IF StartsWith(s, "&gt;") THEN ">" \o DecodeXml(SubSeq(s, 5, Len(s)))
  ELSE IF StartsWith(s, "&quot;") THEN "\"" \o DecodeXml(SubSeq(s, 7, Len(s)))
  ELSE IF StartsWith(s, "&apos;") THEN "'" \o DecodeXml(SubSeq(s, 7, Len(s)))
  ELSE SubSeq(s, 1, 1) \o DecodeXml(SubSeq(s, 2, Len(s)))

Alphabet == {"&", "<", ">", "\"", "'", "=", "l", "t", ";"}

RECURSIVE StringsUpTo(_)
StringsUpTo(n) ==
  IF n = 0 THEN {""}
  ELSE LET shorter == StringsUpTo(n - 1)
       IN shorter \cup {s \o c : s \in shorter, c \in Alphabet}

SanKinds == {"title", "description", "url"}

(***************************************************************************)
(* Values                                                                  *)
(***************************************************************************)
\* JavaScript undefined, for a string-valued attribute that is missing
Undefined == "<undefined>"

\* The time value of an Invalid Date
NaN == -1

NoDoc == [kind |-> "none", items |-> <<>>]

\* rssOutput before feed.rss2() is called
NoRss == [made |-> FALSE, items |-> <<>>]

\* new Date(text): the date texts the pages of the model carry and the
\* instants they denote; any other text gives an Invalid Date.
NewDate(text) ==
  CASE text = "January 1, 2020" -> 0
    [] text = "2024-03-01" -> 2
    [] text = "March 1, 2024" -> 2
    [] text = "June 1, 2031" -> 9
    [] OTHER -> NaN

IsNaN(d) == d = NaN

(***************************************************************************)
(* Inputs: artist records and pages                                        *)
(***************************************************************************)
BandcampUrl == "https://x.bandcamp.com/music"
SoundcloudUrl == "https://soundcloud.com/y"
SpotifyUrl == "https://open.spotify.com/artist/z"
OtherUrl == "https://example.com/artist/page"

\* maxReleases 0 stands for an artist record that does not specify it.
ArtistX(m) == [name |-> "X", url |-> BandcampUrl, maxReleases |-> m]
ArtistY(m) == [name |-> "Y", url |-> SoundcloudUrl, maxReleases |-> m]
ArtistZ == [name |-> "Z", url |-> SpotifyUrl, maxReleases |-> 0]
ExampleArtist == [name |-> "Example Artist", url |-> OtherUrl, maxReleases |-> 0]

ArtistConfigs ==
  {ArtistX(m) : m \in 0..MaxCap} \cup {ArtistY(m) : m \in 0..MaxCap}
    \cup {ArtistZ, ExampleArtist}

\* The artists arrays of the input documents
Documents ==
  {<<>>,
   <<ExampleArtist>>,
   <<ArtistX(0)>>,
   <<ArtistY(0)>>,
   <<ArtistX(MaxCap), ArtistY(1)>>,
   <<ArtistY(MaxCap), ArtistX(1)>>,
   <<ArtistZ, ExampleArtist, ArtistX(1)>>}

\* .music-grid-item elements of a Bandcamp listing page
GridItems ==
  {[href |-> "/album/a", title |-> "LP", image |-> "https://f4.bcbits.com/a.jpg",
    override |-> ""],
   [href |-> "album/b", title |-> "EP", image |-> "", override |-> ""],
   [href |-> "https://x.bandcamp.com/album/d", title |-> "Demo Release",
    image |-> "", override |-> ""],
   [href |-> "https://example.com/x", title |-> "Single", image |-> "",
    override |-> ""],
   [href |-> Undefined, title |-> "LP", image |-> "", override |-> ""]}

\* What a Bandcamp detail page offers to the date strategies: the
\* datePublished values of its ld+json blocks ("" for a block without the
\* field), the date text matched in the credits, the text of the
\* about-release-date element, the content of the datePublished meta tag,
\* the first date text matched in the body, and the album notes.
DetailPages ==
  {[ld |-> <<"January 1, 2020">>, credits |-> "", alt |-> "", meta |-> "",
    body |-> "", notes |-> ""],
   [ld |-> <<>>, credits |-> "", alt |-> "", meta |-> "2024-03-01",
    body |-> "", notes |-> ""],
   [ld |-> <<>>, credits |-> "March 1, 2024", alt |-> "", meta |-> "",
    body |-> "March 1, 2024", notes |-> ""],
   [ld |-> <<"", "June 1, 2031">>, credits |-> "", alt |-> "", meta |-> "",
    body |-> "", notes |-> ""],
   [ld |-> <<"soon">>, credits |-> "", alt |-> "", meta |-> "",
    body |-> "", notes |-> ""],
   [ld |-> <<>>, credits |-> "", alt |-> "", meta |-> "",
    body |-> "", notes |-> ""]}

\* .soundList__item elements of a SoundCloud listing page
SoundItems ==
  {[title |-> "Track", href |-> "/y/t1", image |-> "", dateText |-> "January 1, 2020"],
   [title |-> "Track", href |-> "https://soundcloud.com/y/t1", image |-> "",
    dateText |-> ""],
   [title |-> "Next", href |-> "/y/t2", image |-> "", dateText |-> "June 1, 2031"],
   [title |-> "Live", href |-> "/y/t3", image |-> "", dateText |-> "soon"],
   [title |-> "Tape", href |-> "http://localhost/t4", image |-> "", dateText |-> ""],
   [title |-> "", href |-> "/y/t5", image |-> "", dateText |-> ""],
   [title |-> "Mix", href |-> Undefined, image |-> "", dateText |-> ""]}

(***************************************************************************)
(* scrapeBandcamp: helpers                                                 *)
(***************************************************************************)
\* releaseDate while no strategy has assigned it (JavaScript undefined)
NoDate == -2

\* !releaseDate || isNaN(releaseDate.getTime())
Unset(d) == d = NoDate \/ IsNaN(d)

\* new URL(path, base).toString() for a path that starts with "/": the
\* origin of base (scheme, "://", host) followed by the path; a path that
\* starts with "//" keeps only the scheme of base.
RECURSIVE IndexOf(_, _, _)
IndexOf(s, sub, from) ==
  IF from + Len(sub) - 1 > Len(s) THEN 0
  ELSE IF SubSeq(s, from, from + Len(sub) - 1) = sub THEN from
  ELSE IndexOf(s, sub, from + 1)

UrlResolve(path, base) ==
  LET sep == IndexOf(base, "://", 1)
      slash == IndexOf(base, "/", sep + 3)
      origin == IF slash = 0 THEN base ELSE SubSeq(base, 1, slash - 1)
  IN IF StartsWith(path, "//") THEN SubSeq(base, 1, sep) \o path
     ELSE origin \o path

\* The mutation keeps the href as found, resolved or not.
FullAlbumUrlUnresolved(albumUrl, url) == albumUrl

\* albumUrl.startsWith('http') ? albumUrl :
\*   (albumUrl.startsWith('/') ? new URL(albumUrl, url).toString() : `${url}${albumUrl}`)
FullAlbumUrl(albumUrl, url) ==
  IF StartsWith(albumUrl, "http") THEN albumUrl
  ELSE IF StartsWith(albumUrl, "/") THEN UrlResolve(albumUrl, url)
  ELSE url \o albumUrl

\* An ld+json block whose content is not JSON: JSON.parse throws
NotJson == "<not json>"

\* The mutation lets every block with a datePublished assign releaseDate, so
\* that the last of them stays.
LastDated(ld, k) ==
  LET dated == {j \in k..Len(ld) : ld[j] \notin {"", NotJson}}
  IN IF dated = {} THEN 0 ELSE CHOOSE j \in dated : \A i \in dated : i <= j

\* scriptTags.each: the first ld+json block that parses and whose
\* datePublished is truthy
RECURSIVE FirstDated(_, _)
FirstDated(ld, k) ==
  IF k > Len(ld) THEN 0
  ELSE IF ld[k] \notin {"", NotJson} THEN k
  ELSE FirstDated(ld, k + 1)

\* The date strategies of scrapeBandcamp: releaseDate as they leave it
StrategyDate(page) ==
  LET k == FirstDated(page.ld, 1)
      found1 == k # 0
      date1 == IF found1 THEN NewDate(page.ld[k]) ELSE NoDate
      found2 == found1 \/ page.credits # ""
      date2 == IF ~found1 /\ page.credits # "" THEN NewDate(page.credits)
               ELSE date1
      found3 == found2 \/ page.alt # ""
      date3 == IF ~found2 /\ page.alt # "" THEN NewDate(page.alt) ELSE date2
      retry == ~found3 \/ Unset(date3)
      found4 == found3 \/ (retry /\ page.meta # "")
      date4 == IF retry /\ page.meta # "" THEN NewDate(page.meta) ELSE date3
      date5 == IF retry /\ ~found4 /\ page.body # "" THEN NewDate(page.body)
               ELSE date4
  IN date5

\* The strategies, then the fallback to the current date t:
\* if (!releaseDate || isNaN(releaseDate.getTime())) releaseDate = new Date()
ResolveDate(page, t) ==
  IF Unset(StrategyDate(page)) THEN t ELSE StrategyDate(page)

\* console.log(`Parsed date: ${releaseDate.toISOString()}`) on the date
\* taken from the credits: toISOString throws a RangeError on an Invalid
\* Date, which the catch around the detail page receives.
CreditsThrows(page) ==
  /\ FirstDated(page.ld, 1) = 0
  /\ page.credits # ""
  /\ IsNaN(NewDate(page.credits))

\* The mutation keeps a release whatever its date.
IsFutureReleaseNever(releaseDate, now) == FALSE

\* The mutation drops a release dated at the very instant of the comparison.
IsFutureReleaseOrNow(releaseDate, now) == releaseDate >= now

\* const isFutureRelease = releaseDate > now
IsFutureRelease(releaseDate, now) == releaseDate > now

\* albumNotes.length > 300 ? albumNotes.substring(0, 297) + '...' : albumNotes
Description(override, notes) ==
  IF notes # ""
  THEN (IF Len(notes) > 300 THEN SubSeq(notes, 1, 297) \o "..." ELSE notes)
  ELSE "New release by " \o (IF override # "" THEN override ELSE "artist")

\* releases.sort((a, b) => b.date - a.date): a stable sort, newest first
RECURSIVE InsertByDate(_, _)
InsertByDate(sorted, r) ==
  IF sorted = <<>> THEN <<r>>
  ELSE IF Head(sorted).date >= r.date
       THEN <<Head(sorted)>> \o InsertByDate(Tail(sorted), r)
       ELSE <<r>> \o sorted

RECURSIVE SortByDate(_)
SortByDate(rs) ==
  IF rs = <<>> THEN <<>>
  ELSE InsertByDate(SortByDate(SubSeq(rs, 1, Len(rs) - 1)), rs[Len(rs)])

\* The synthetic candidates the extractors return
Synthetic(title, url, t, description) ==
  [title |-> title, url |-> url, date |-> t, image |-> "",
   description |-> description]

\* The instants a clock at t can show at its next reading
Later(t) == t..Min(t + 1, MaxClock)

(***************************************************************************)
(* scrapeArtistReleases                                                    *)
(*                                                                         *)
(* An activation of an extractor is a record: at is the position in the    *)
(* extractor, url and max its arguments, n the number of items the listing *)
(* page exposes, itemCount and idx the loop bounds and index, releases the *)
(* releases array, now the clock, seen the history of what became of each  *)
(* item processed so far, and error what the catch of the extractor has    *)
(* written to the console.  Each step below gives the set of activations   *)
(* that can follow a given one, over every page the fetches can return.    *)
(***************************************************************************)
Idle ==
  [at |-> "idle", url |-> "", max |-> 0, n |-> 0, itemCount |-> 0, idx |-> 0,
   releases |-> <<>>, now |-> 0, seen |-> <<>>, error |-> ""]

\* const maxReleases = artist.maxReleases || 2
MaxReleasesOf(artist) ==
  IF artist.maxReleases = 0 THEN 2 ELSE artist.maxReleases

\* The mutation tests for soundcloud.com first.
PlatformSoundcloudFirst(url) ==
  IF Includes(url, "soundcloud.com") THEN "soundcloud"
  ELSE IF Includes(url, "bandcamp.com") THEN "bandcamp"
  ELSE IF Includes(url, "spotify.com") THEN "spotify"
  ELSE "other"

\* The extractor scrapeArtistReleases hands the artist to
Platform(url) ==
  IF Includes(url, "bandcamp.com") THEN "bandcamp"
  ELSE IF Includes(url, "soundcloud.com") THEN "soundcloud"
  ELSE IF Includes(url, "spotify.com") THEN "spotify"
  ELSE "other"

\* return [{...}]: the extractor returns rs at time t
Return(e, rs, t) == [e EXCEPT !.at = "returned", !.releases = rs, !.now = t]

\* scrapeArtistReleases(artist) at time t, up to the first await of the
\* extractor it selects
Begin(artist, t) ==
  LET e == [Idle EXCEPT !.url = artist.url, !.max = MaxReleasesOf(artist),
                        !.now = t]
  IN CASE Platform(artist.url) = "bandcamp" -> [e EXCEPT !.at = "bcListing"]
       [] Platform(artist.url) = "soundcloud" -> [e EXCEPT !.at = "scListing"]
       [] Platform(artist.url) = "spotify" ->
            Return(e, <<Synthetic("Sample Spotify Release", artist.url, t,
                          "Demo release (Spotify requires authentication)")>>, t)
       [] OTHER ->
            Return(e, <<Synthetic("Sample Release",
                          "https://example.com/sample-release", t,
                          "Demo release for " \o artist.name)>>, t)

(***************************************************************************)
(* scrapeBandcamp                                                          *)
(***************************************************************************)
\* const itemCount = Math.min(albumItems.length, maxReleases)
ItemCount(n, maxReleases) == Min(n, maxReleases)

\* The mutation returns an empty array from the catch.
BandcampErrorEmpty(e, t) ==
  [Return(e, <<>>, t) EXCEPT !.error = "Error scraping Bandcamp"]

\* The outer catch of scrapeBandcamp
BandcampError(e, t) ==
  [Return(e, <<Synthetic("Error Reading Bandcamp", e.url, t,
                 "Could not retrieve releases")>>, t)
     EXCEPT !.error = "Error scraping Bandcamp"]

\* await axios.get(url) of the listing page, then the grid items are counted
BandcampListingStep(e) ==
  UNION {{BandcampError(e, t)}
           \cup {[e EXCEPT !.at = "bcItem", !.now = t, !.n = n,
                           !.itemCount = ItemCount(n, e.max)] : n \in 0..MaxGrid}
         : t \in Later(e.now)}

\* One iteration of the loop on grid item g, up to the delay or the
\* continue: the href is made absolute, the detail page is fetched (the fetch
\* returns at t1), the date is resolved and the release is pushed unless it
\* is dated in the future; an exception on the way is caught and the release
\* is pushed with the current date.
BandcampItemOn(e, g) ==
  IF g.href = Undefined
  THEN \* albumUrl.startsWith throws a TypeError: outer catch
       {[BandcampError(e, e.now) EXCEPT
           !.seen = Append(e.seen, "threw")]}
  ELSE
    LET fullAlbumUrl == FullAlbumUrl(g.href, e.url)
        Pushed(releaseDate, description, t, outcome) ==
          [e EXCEPT !.at = "bcDelay", !.now = t,
             !.releases = Append(e.releases,
                [title |-> g.title, url |-> fullAlbumUrl, date |-> releaseDate,
                 image |-> g.image, description |-> description]),
             !.seen = Append(e.seen, outcome)]
        Skipped(t) ==
          [e EXCEPT !.idx = e.idx + 1, !.now = t,
             !.seen = Append(e.seen, "future")]
    IN UNION {
         \* the detail fetch fails: inner catch
         {Pushed(t1, Description(g.override, ""), t1, "fetchFailed")}
         \cup
         {LET releaseDate == ResolveDate(page, t1) IN
          IF CreditsThrows(page)
          THEN Pushed(now, Description(g.override, ""), now, "caught")
          ELSE IF IsFutureRelease(releaseDate, now)
          THEN Skipped(now)
          ELSE Pushed(releaseDate, Description(g.override, page.notes), now, "pushed")
          : page \in DetailPages, now \in Later(t1)}
       : t1 \in Later(e.now)}

BandcampItemStep(e) == UNION {BandcampItemOn(e, g) : g \in GridItems}

\* await new Promise(resolve => setTimeout(resolve, 700)), then i++
BandcampDelayStep(e) ==
  {[e EXCEPT !.at = "bcItem", !.idx = e.idx + 1, !.now = t] : t \in Later(e.now)}

\* The mutation returns the releases as they are, be there none.
BandcampReturnStepNoSample(e) == {Return(e, SortByDate(e.releases), e.now)}

\* After the loop: the releases are sorted, and an empty result is replaced
\* by the sample candidate.
BandcampReturnStep(e) ==
  {Return(e, IF Len(e.releases) > 0 THEN SortByDate(e.releases)
             ELSE <<Synthetic("Sample Bandcamp Release", e.url, e.now,
                      "Demo release (no actual releases found)")>>,
          e.now)}

(***************************************************************************)
(* scrapeSoundcloud                                                        *)
(***************************************************************************)
\* await axios.get(url) of the listing page; a failed fetch is caught.
SoundcloudListingStep(e) ==
  UNION {{[Return(e, <<Synthetic("Error Reading SoundCloud", e.url, t,
                        "Could not retrieve releases")>>, t)
             EXCEPT !.error = "Error scraping SoundCloud"]}
           \cup {[e EXCEPT !.at = "scItem", !.now = t, !.n = n] : n \in 0..MaxGrid}
         : t \in Later(e.now)}

\* One call of the soundItems.each callback, on element el.  count equals
\* releases.length: both grow by one on every push.
SoundcloudItemOn(e, el) ==
  LET date == IF el.dateText # "" THEN NewDate(el.dateText) ELSE e.now
      kept == el.title # "" /\ el.href # Undefined
  IN [e EXCEPT !.idx = e.idx + 1,
        !.releases =
          IF kept
          THEN Append(e.releases,
                 [title |-> el.title,
                  url |-> IF StartsWith(el.href, "http") THEN el.href
                          ELSE "https://soundcloud.com" \o el.href,
                  date |-> date, image |-> el.image,
                  description |-> "New track on SoundCloud"])
          ELSE e.releases,
        !.seen = Append(e.seen, IF kept THEN "pushed" ELSE "skipped")]

SoundcloudItemStep(e) == {SoundcloudItemOn(e, el) : el \in SoundItems}

\* The mutation lets the each loop run over every item of the listing.
SoundcloudMoreUncapped(e) == e.idx < e.n

\* The each loop goes on while an item is left and the callback has not
\* returned false (count >= maxReleases).
SoundcloudMore(e) == e.idx < e.n /\ Len(e.releases) < e.max

\* The mutation adds the sample candidate to whatever was found.
SoundcloudReturnStepWithSample(e) ==
  {Return(e, Append(e.releases,
                    Synthetic("Sample SoundCloud Release", e.url, e.now,
                      "Demo release (no actual releases found)")),
          e.now)}

\* After the loop: an empty result is replaced by the sample candidate.
SoundcloudReturnStep(e) ==
  {Return(e, IF Len(e.releases) > 0 THEN e.releases
             ELSE <<Synthetic("Sample SoundCloud Release", e.url, e.now,
                      "Demo release (no actual releases found)")>>,
          e.now)}

(***************************************************************************)
(* An extractor run to its return                                          *)
(***************************************************************************)
ExtractorStep(e) ==
  CASE e.at = "bcListing" -> BandcampListingStep(e)
    [] e.at = "bcItem" /\ e.idx < e.itemCount -> BandcampItemStep(e)
    [] e.at = "bcItem" /\ e.idx >= e.itemCount -> BandcampReturnStep(e)
    [] e.at = "bcDelay" -> BandcampDelayStep(e)
    [] e.at = "scListing" -> SoundcloudListingStep(e)
    [] e.at = "scItem" /\ SoundcloudMore(e) -> SoundcloudItemStep(e)
    [] e.at = "scItem" /\ ~SoundcloudMore(e) -> SoundcloudReturnStep(e)
    [] OTHER -> {e}

RECURSIVE RunToReturn(_)
RunToReturn(S) ==
  IF \A e \in S : e.at = "returned" THEN S
  ELSE RunToReturn(UNION {ExtractorStep(e) : e \in S})

\* What await scrapeArtistReleases(artist), called at time t, can return, and
\* when: the activations at their return, over every outcome of the steps
\* above.
ScrapeResults(artist, t) == RunToReturn({Begin(artist, t)})

(***************************************************************************)
(* generateFeedForFile                                                     *)
(***************************************************************************)
\* The mutation lets every candidate through.
IsRealReleaseUnfiltered(release) == TRUE

\* The mutation tests the URL of a candidate only.
IsRealReleaseByUrl(release) ==
  ~ \/ Includes(release.url, "example.com")
    \/ ~Includes(release.url, ".")

\* The predicate of releases.filter
IsRealRelease(release) ==
  /\ ~ \/ Includes(release.title, "Sample")
       \/ Includes(release.title, "Error Reading")
       \/ Includes(release.title, "Example")
       \/ Includes(release.title, "Demo")
  /\ ~ \/ Includes(release.url, "example.com")
       \/ ~Includes(release.url, ".")

RECURSIVE Filter(_)
Filter(rs) ==
  IF rs = <<>> THEN <<>>
  ELSE (IF IsRealRelease(Head(rs)) THEN <<Head(rs)>> ELSE <<>>)
         \o Filter(Tail(rs))

\* The argument of feed.addItem for a release of the artist at position k;
\* the fields artist and release record where the item comes from.
FeedItem(k, artist, release) ==
  LET safeDescription ==
        EscapeXml(IF release.description # "" THEN release.description
                  ELSE "New release by " \o artist.name)
      safeTitle == EscapeXml(artist.name \o " - " \o release.title)
      safeUrl == EscapeUrl(release.url)
      safeImageUrl == IF release.image # "" THEN EscapeUrl(release.image) ELSE ""
      safeArtistUrl == EscapeUrl(artist.url)
      enhancedDescription ==
        IF release.image # ""
        THEN "<p><img src=\"" \o safeImageUrl \o "\" alt=\"" \o safeTitle
               \o "\" style=\"max-width:100%;\"></p>\n               <p>"
               \o safeDescription \o "</p>"
        ELSE safeDescription
  IN [title |-> artist.name \o " - " \o release.title,
      id |-> safeUrl,
      link |-> safeUrl,
      description |-> enhancedDescription,
      author |-> [name |-> artist.name, link |-> safeArtistUrl],
      date |-> release.date,
      image |-> IF release.image # "" THEN safeImageUrl ELSE "",
      artist |-> k,
      release |-> release]

\* The items made of the real releases of the artist at position k
FeedItems(k, artist, real) ==
  [j \in 1..Len(real) |-> FeedItem(k, artist, real[j])]

\* The loop over realReleases: feed.addItem appends the item unless it
\* throws (thrown[j]), and the catch around it only logs.
RECURSIVE AddItems(_, _, _)
AddItems(items, new, thrown) ==
  IF new = <<>> THEN items
  ELSE AddItems(IF Head(thrown) THEN items ELSE Append(items, Head(new)),
                Tail(new), Tail(thrown))

\* An <item> element of a written document
DocItem(item) ==
  [title |-> item.title, link |-> item.link, guid |-> item.id,
   pubDate |-> item.date, description |-> item.description,
   author |-> item.author.name, enclosure |-> item.image,
   artist |-> item.artist, release |-> item.release]

DocItems(items) == [j \in 1..Len(items) |-> DocItem(items[j])]

\* The single item of the minimal feed
NoReleasesItem(t) ==
  [title |-> "No Releases Found",
   link |-> "https://github.com/user/artist-rss-feed-generator",
   guid |-> "https://github.com/user/artist-rss-feed-generator/no-releases-",
   pubDate |-> t,
   description |-> "No releases were found for the configured artists. Please check your artists list.",
   author |-> "", enclosure |-> "", artist |-> 0,
   release |-> Synthetic("", "", t, "")]

\* if (totalReleaseCount === 0)
MinimalFeed(count, items) == count = 0

\* console.log(`Added ${realReleases.length} releases for ${artist.name}
\* (filtered ${filteredCount} sample/example releases)`)
Added(artist, releases) ==
  [msg |-> "Added", about |-> artist.name, added |-> Len(Filter(releases)),
   filtered |-> Len(releases) - Len(Filter(releases))]

\* Any other line of the console
Message(msg) == [msg |-> msg, about |-> "", added |-> 0, filtered |-> 0]

\* What an extractor and the rest of the loop body write to the console
ConsoleOf(e, artist) ==
  (IF e.error # "" THEN <<Message(e.error)>> ELSE <<>>)
    \o <<Added(artist, e.releases)>>

\* const artistsData = await fs.readJson(fullPath): the document is read, or
\* readJson throws on a document that is not JSON and the catch of
\* generateFeedForFile logs and throws again; a document without artists is
\* skipped.
ReadJson ==
  /\ pc = "readJson"
  /\ \/ \E doc \in Documents :
          /\ artists' = doc
          /\ pc' = IF Len(doc) = 0 THEN "skipped" ELSE "loop"
          /\ log' = IF Len(doc) = 0
                    THEN Append(log, Message("No artists found, skipping"))
                    ELSE log
     \/ /\ artists' = <<>>
        /\ pc' = "threw"
        /\ log' = Append(log, Message("Error generating feed"))
  /\ UNCHANGED <<clock, ai, ex, feedItems, totalReleaseCount, written, rssOutput, san,
                 dateVars, runVars>>

\* The rest of the loop body once the releases are filtered: the real ones
\* are added to the feed and counted.
AddReleases(items) ==
  /\ \E thrown \in [1..Len(items) -> BOOLEAN] :
       feedItems' = AddItems(feedItems, items, thrown)
  /\ totalReleaseCount' = totalReleaseCount + Len(items)

\* What is left of an activation once the extractor has returned: its
\* arguments, the array it returned, the time, and its console output.
Returned(e) ==
  [Idle EXCEPT !.at = "returned", !.url = e.url, !.max = e.max,
               !.releases = e.releases, !.now = e.now, !.error = e.error]

\* What await scrapeArtistReleases(artist) followed by releases.filter can
\* give, with the feed item of each real release, for every artist record
\* and every time t of the call
FilteredResults ==
  [a \in ArtistConfigs, t \in 1..MaxClock |->
     {[items |-> FeedItems(0, a, Filter(e.releases)), ex |-> Returned(e)] :
        e \in ScrapeResults(a, t)}]

\* One iteration of for (const artist of artists), from reading the artist
\* record to the end of the loop body.
ProcessArtist ==
  /\ pc = "loop"
  /\ ai < Len(artists)
  /\ ai' = ai + 1
  /\ \E r \in FilteredResults[artists[ai'], clock] :
       /\ ex' = r.ex
       /\ clock' = r.ex.now
       /\ AddReleases([j \in 1..Len(r.items) |-> [r.items[j] EXCEPT !.artist = ai']])
       /\ log' = log \o ConsoleOf(r.ex, artists[ai'])
  /\ UNCHANGED <<pc, artists, written, rssOutput, san, dateVars, runVars>>

\* const hasItems = rssOutput.includes("<item>")
HasItems(rss) == Len(rss.items) > 0

\* The mutation never takes the manual serialization.
UseManualNever(rss, items) == FALSE

\* if (!hasItems && feed.items.length > 0)
UseManual(rss, items) == ~HasItems(rss) /\ Len(items) > 0

\* for (const item of feed.items) manualRssOutput += `<item>...</item>`
ManualRssOutput(items) == [kind |-> "manual", items |-> DocItems(items)]

\* The loop is over: the minimal feed, the output of feed.rss2(), or the
\* manual serialization is written.  feed.rss2() renders the items in the
\* order of feed.items, or (omitted) leaves them out.
WriteFeed ==
  /\ pc = "loop"
  /\ ai >= Len(artists)
  /\ \/ /\ MinimalFeed(totalReleaseCount, feedItems)
        /\ written' = [kind |-> "minimal", items |-> <<NoReleasesItem(clock)>>]
        /\ rssOutput' = rssOutput
     \/ /\ ~MinimalFeed(totalReleaseCount, feedItems)
        /\ \E omitted \in BOOLEAN :
             rssOutput' = [made |-> TRUE,
                           items |-> IF omitted THEN <<>> ELSE DocItems(feedItems)]
        /\ IF UseManual(rssOutput', feedItems)
           THEN written' = ManualRssOutput(feedItems)
           ELSE written' = [kind |-> "rss2", items |-> rssOutput'.items]
  /\ pc' = "done"
  /\ UNCHANGED <<clock, artists, ai, ex, feedItems, totalReleaseCount, san,
                 log, dateVars, runVars>>

(***************************************************************************)
(* The run over one input document                                         *)
(***************************************************************************)
NoSan == [kind |-> "none", input |-> "", safe |-> "", decoded |-> ""]

\* No detail page is being looked at on its own
NoDates ==
  /\ albumPage = [ld |-> <<>>, credits |-> "", alt |-> "", meta |-> "",
                  body |-> "", notes |-> ""]
  /\ resolvedDate = NoDate

\* The exit code while the process is running
Running == -1

\* processArtistFiles is not part of the run
NoRun ==
  /\ artistsDir = <<>>
  /\ jsonFiles = <<>>
  /\ fileIdx = 0
  /\ dist = {}
  /\ exitCode = Running
  /\ inFlight = {}

Init ==
  /\ pc = "readJson"
  /\ clock = 1
  /\ artists = <<>>
  /\ ai = 0
  /\ ex = Idle
  /\ feedItems = <<>>
  /\ totalReleaseCount = 0
  /\ written = NoDoc
  /\ rssOutput = NoRss
  /\ san = NoSan
  /\ log = <<>>
  /\ NoDates
  /\ NoRun

Next ==
  \/ ReadJson
  \/ ProcessArtist
  \/ WriteFeed

Spec == Init /\ [][Next]_vars

(***************************************************************************)
(* The run over a document of one artist, extractor step by step           *)
(***************************************************************************)
\* for (const artist of artists): the artist record is read and
\* scrapeArtistReleases is called.
NextArtist ==
  /\ pc = "loop"
  /\ ai < Len(artists)
  /\ ai' = ai + 1
  /\ ex' = Begin(artists[ai'], clock)
  /\ pc' = "scraping"
  /\ UNCHANGED <<clock, artists, feedItems, totalReleaseCount, written, rssOutput, san,
                 log, dateVars, runVars>>

\* The extractor moves from position at by one of the steps in next.
Advance(at, next) ==
  /\ pc = "scraping"
  /\ ex.at = at
  /\ ex' \in next
  /\ clock' = ex'.now
  /\ log' = IF ex'.error # "" THEN Append(log, Message(ex'.error)) ELSE log
  /\ UNCHANGED <<pc, artists, ai, feedItems, totalReleaseCount, written, rssOutput, san,
                 dateVars, runVars>>

BandcampListing == Advance("bcListing", BandcampListingStep(ex))

BandcampItem ==
  /\ ex.idx < ex.itemCount
  /\ Advance("bcItem", BandcampItemStep(ex))

BandcampDelay == Advance("bcDelay", BandcampDelayStep(ex))

BandcampReturn ==
  /\ ex.idx >= ex.itemCount
  /\ Advance("bcItem", BandcampReturnStep(ex))

SoundcloudListing == Advance("scListing", SoundcloudListingStep(ex))

SoundcloudItem ==
  /\ SoundcloudMore(ex)
  /\ Advance("scItem", SoundcloudItemStep(ex))

SoundcloudReturn ==
  /\ ~SoundcloudMore(ex)
  /\ Advance("scItem", SoundcloudReturnStep(ex))

\* scrapeArtistReleases has returned: the rest of the loop body
FilterAndAdd ==
  /\ pc = "scraping"
  /\ ex.at = "returned"
  /\ AddReleases(FeedItems(ai, artists[ai], Filter(ex.releases)))
  /\ log' = Append(log, Added(artists[ai], ex.releases))
  /\ pc' = "loop"
  /\ UNCHANGED <<clock, artists, ai, ex, written, rssOutput, san, dateVars, runVars>>

InitSteps ==
  /\ pc = "loop"
  /\ clock = 1
  /\ artists \in {<<a>> : a \in ArtistConfigs}
  /\ ai = 0
  /\ ex = Idle
  /\ feedItems = <<>>
  /\ totalReleaseCount = 0
  /\ written = NoDoc
  /\ rssOutput = NoRss
  /\ san = NoSan
  /\ log = <<>>
  /\ NoDates
  /\ NoRun

NextSteps ==
  \/ NextArtist
  \/ BandcampListing
  \/ BandcampItem
  \/ BandcampDelay
  \/ BandcampReturn
  \/ SoundcloudListing
  \/ SoundcloudItem
  \/ SoundcloudReturn
  \/ FilterAndAdd
  \/ WriteFeed

SpecSteps == InitSteps /\ [][NextSteps]_vars

(***************************************************************************)
(* The filter on what an extractor has returned                            *)
(*                                                                         *)
(* The run starts where scrapeArtistReleases has just returned, with any   *)
(* result of the extractors above or with one of the stand-ins the         *)
(* extractors of the earlier scraper (unnamed/part_000) return.            *)
(***************************************************************************)
\* The stand-ins of the earlier scraper: nothing found on Bandcamp, on
\* SoundCloud and on Spotify, the catch of scrapeSpotify, of scrapeGeneric
\* and of scrapeArtistReleases
EarlierStandIns(artist, t) ==
  {Synthetic("No Releases Found", artist.url, t,
     "Could not find any releases for " \o artist.name
       \o " on Bandcamp. Check back later!"),
   Synthetic("No Tracks Found", artist.url, t,
     "Could not find any tracks for " \o artist.name
       \o " on SoundCloud. Check back later!"),
   Synthetic("Spotify Releases", artist.url, t,
     "Visit Spotify to see releases from " \o artist.name),
   Synthetic("Spotify Releases Available", artist.url, t,
     "Visit this link to see " \o artist.name \o "'s releases on Spotify"),
   Synthetic("Visit Artist Page", artist.url, t,
     "Visit this link to see " \o artist.name \o "'s releases"),
   Synthetic("Error Fetching Releases", artist.url, t,
     "Could not retrieve releases for " \o artist.name)}

\* The stand-ins of scrapeArtistReleases, scrapeBandcamp, scrapeSoundcloud
\* and scrapeSpotify
StandIns(artist, t) ==
  {Synthetic("Sample Release", "https://example.com/sample-release", t,
     "Demo release for " \o artist.name),
   Synthetic("Sample Bandcamp Release", artist.url, t,
     "Demo release (no actual releases found)"),
   Synthetic("Error Reading Bandcamp", artist.url, t,
     "Could not retrieve releases"),
   Synthetic("Sample SoundCloud Release", artist.url, t,
     "Demo release (no actual releases found)"),
   Synthetic("Error Reading SoundCloud", artist.url, t,
     "Could not retrieve releases"),
   Synthetic("Sample Spotify Release", artist.url, t,
     "Demo release (Spotify requires authentication)")}

\* The activations in which scrapeArtistReleases(artist), called at t, can
\* have returned
ReturnedFrom(artist, t) ==
  {r.ex : r \in FilteredResults[artist, t]}
    \cup {Returned(Return(Begin(artist, t), <<c>>, t)) :
            c \in EarlierStandIns(artist, t)}

InitFilter ==
  /\ pc = "scraping"
  /\ \E a \in ArtistConfigs : \E e \in ReturnedFrom(a, 1) :
       /\ artists = <<a>>
       /\ ex = e
       /\ clock = e.now
       /\ log = IF e.error # "" THEN <<Message(e.error)>> ELSE <<>>
  /\ ai = 1
  /\ feedItems = <<>>
  /\ totalReleaseCount = 0
  /\ written = NoDoc
  /\ rssOutput = NoRss
  /\ san = NoSan
  /\ NoDates
  /\ NoRun

NextFilter ==
  \/ FilterAndAdd
  \/ WriteFeed

SpecFilter == InitFilter /\ [][NextFilter]_vars

(***************************************************************************)
(* The date strategies of scrapeBandcamp on one detail page                *)
(***************************************************************************)
\* The detail pages: every combination of what the strategies can find.
\* The credits and the body give a text only where the pattern
\* released <Month> <Day>, <Year> matches.
DatePages ==
  [ld : {<<>>, <<"soon">>, <<"January 1, 2020">>, <<"", "June 1, 2031">>,
         <<NotJson>>, <<NotJson, "January 1, 2020", "June 1, 2031">>},
   credits : {"", "March 1, 2024", "Foo 1, 2020"},
   alt : {"", "soon", "January 1, 2020"},
   meta : {"", "soon", "2024-03-01"},
   body : {"", "March 1, 2024", "Foo 1, 2020"},
   notes : {""}]

InitDate ==
  /\ pc = "resolve"
  /\ clock \in 1..MaxClock
  /\ albumPage \in DatePages
  /\ resolvedDate = NoDate
  /\ artists = <<>>
  /\ ai = 0
  /\ ex = Idle
  /\ feedItems = <<>>
  /\ totalReleaseCount = 0
  /\ written = NoDoc
  /\ rssOutput = NoRss
  /\ san = NoSan
  /\ log = <<>>
  /\ NoRun

\* The detail page has been fetched: the strategies run, the fallback to the
\* current date (read at t) follows, then now is read and the release is
\* pushed or skipped as a future one; when toISOString throws, the catch
\* pushes it with the current date.
ResolveReleaseDate ==
  /\ pc = "resolve"
  /\ \E t \in Later(clock) : \E now \in Later(t) :
       /\ clock' = now
       /\ IF CreditsThrows(albumPage)
          THEN /\ resolvedDate' = now
               /\ pc' = "caught"
          ELSE /\ resolvedDate' = ResolveDate(albumPage, t)
               /\ pc' = IF IsFutureRelease(resolvedDate', now) THEN "future"
                        ELSE "pushed"
  /\ UNCHANGED <<artists, ai, ex, feedItems, totalReleaseCount, written, rssOutput, san,
                 albumPage, log, runVars>>

NextDate == ResolveReleaseDate

SpecDate == InitDate /\ [][NextDate]_vars

(***************************************************************************)
(* The dispatch of scrapeArtistReleases on its own                         *)
(***************************************************************************)
Hosts == {"x.bandcamp.com", "soundcloud.com", "open.spotify.com", "example.org"}

Locations == {"/music", "/bandcamp.com", "/soundcloud.com/y", "/?via=spotify.com"}

\* Artist URLs whose host and whose path and query each name a platform or
\* none
DispatchUrls == {"https://" \o h \o l : h \in Hosts, l \in Locations}

InitDispatch ==
  /\ pc = "loop"
  /\ clock \in 1..MaxClock
  /\ \E u \in DispatchUrls, m \in 0..MaxCap :
       artists = <<[name |-> "X", url |-> u, maxReleases |-> m]>>
  /\ ai = 0
  /\ ex = Idle
  /\ feedItems = <<>>
  /\ totalReleaseCount = 0
  /\ written = NoDoc
  /\ rssOutput = NoRss
  /\ san = NoSan
  /\ log = <<>>
  /\ NoDates
  /\ NoRun

NextDispatch == NextArtist

SpecDispatch == InitDispatch /\ [][NextDispatch]_vars

(***************************************************************************)
(* The sanitization of the releases on their way into the written feed     *)
(*                                                                         *)
(* The run starts where scrapeBandcamp has just returned one release whose *)
(* fields carry the characters the sanitization is about.                  *)
(***************************************************************************)
EscapeArtists ==
  {[name |-> "X", url |-> BandcampUrl, maxReleases |-> 1],
   [name |-> "A&B", url |-> "https://x.bandcamp.com/music?a=1", maxReleases |-> 1]}

\* The releases scrapeBandcamp pushes for grid items and detail pages whose
\* texts and links hold & < > " ' and =
EscapeReleases ==
  [title : {"LP", "Rock & Roll", "<b>", "Say \"Hi\"", "It's"},
   url : {"https://x.bandcamp.com/album/a",
          "https://x.bandcamp.com/album/b?id=1&t='2'"},
   date : {0},
   image : {"", "https://f4.bcbits.com/a.jpg?s=1"},
   description : {"", "A & B <live>"}]

InitEscape ==
  /\ pc = "scraping"
  /\ \E a \in EscapeArtists, r \in EscapeReleases, t \in 1..MaxClock :
       /\ artists = <<a>>
       /\ ex = Returned(Return(Begin(a, t), <<r>>, t))
       /\ clock = t
  /\ ai = 1
  /\ feedItems = <<>>
  /\ totalReleaseCount = 0
  /\ written = NoDoc
  /\ rssOutput = NoRss
  /\ san = NoSan
  /\ log = <<>>
  /\ NoDates
  /\ NoRun

NextEscape ==
  \/ FilterAndAdd
  \/ WriteFeed

SpecEscape == InitEscape /\ [][NextEscape]_vars

(***************************************************************************)
(* The sanitization chains on their own                                    *)
(***************************************************************************)
InitSanitize ==
  /\ pc = "sanitize"
  /\ clock = 1
  /\ artists = <<>>
  /\ ai = 0
  /\ ex = Idle
  /\ feedItems = <<>>
  /\ totalReleaseCount = 0
  /\ written = NoDoc
  /\ rssOutput = NoRss
  /\ log = <<>>
  /\ NoDates
  /\ NoRun
  /\ \E kind \in SanKinds, s \in StringsUpTo(MaxLen) :
       san = [kind |-> kind, input |-> s, safe |-> "", decoded |-> ""]

\* safeTitle and safeDescription go through EscapeXml, safeUrl through
\* EscapeUrl.
Sanitize ==
  /\ pc = "sanitize"
  /\ san' = [san EXCEPT !.safe = IF san.kind = "url" THEN EscapeUrl(san.input)
                                 ELSE EscapeXml(san.input)]
  /\ pc' = "decode"
  /\ UNCHANGED <<clock, artists, ai, ex, feedItems, totalReleaseCount, written, rssOutput,
                 log, dateVars, runVars>>

\* A reader of the feed decodes the entities.
Decode ==
  /\ pc = "decode"
  /\ san' = [san EXCEPT !.decoded = DecodeXml(san.safe)]
  /\ pc' = "decoded"
  /\ UNCHANGED <<clock, artists, ai, ex, feedItems, totalReleaseCount, written, rssOutput,
                 log, dateVars, runVars>>

NextSanitize == Sanitize \/ Decode

SpecSanitize == InitSanitize /\ [][NextSanitize]_vars

(***************************************************************************)
(* processArtistFiles: the run over the artists directory                  *)
(*                                                                         *)
(* A document is known by what generateFeedForFile makes of it: "artists"  *)
(* for a document with a non-empty artists array, "empty" for one without  *)
(* artists, "malformed" for one that is not JSON.  Paths are relative to   *)
(* the directory of the script.                                            *)
(***************************************************************************)
outputDir == "dist"

\* The paths glob.sync('**/*.json') can report
Paths == {"a.json", "sub/a.json", "sub/b.json", "a.b.json"}

DocumentKinds == {"artists", "empty", "malformed"}

\* The artists directory before the run
Trees ==
  UNION {[S -> DocumentKinds] : S \in {T \in SUBSET Paths : Cardinality(T) <= MaxFiles}}

\* The orders in which glob.sync can report the paths of S
Listings(S) ==
  {f \in [1..Cardinality(S) -> S] : \A i, j \in 1..Cardinality(S) : f[i] = f[j] => i = j}

RECURSIVE LastIndexOf(_, _, _)
LastIndexOf(s, c, from) ==
  IF from < 1 THEN 0
  ELSE IF SubSeq(s, from, from) = c THEN from
  ELSE LastIndexOf(s, c, from - 1)

EndsWith(s, suffix) ==
  Len(s) >= Len(suffix) /\ SubSeq(s, Len(s) - Len(suffix) + 1, Len(s)) = suffix

\* path.dirname(p) of a relative path without a trailing separator
Dirname(p) ==
  LET slash == LastIndexOf(p, "/", Len(p))
  IN IF slash = 0 THEN "." ELSE SubSeq(p, 1, slash - 1)

\* path.basename(p, ext): the last segment, without ext when it ends with
\* ext and is more than ext
Basename(p, ext) ==
  LET base == SubSeq(p, LastIndexOf(p, "/", Len(p)) + 1, Len(p))
  IN IF EndsWith(base, ext) /\ base # ext
     THEN SubSeq(base, 1, Len(base) - Len(ext))
     ELSE base

\* path.join(a, b) for a normalized a and a normalized relative b
PathJoin(a, b) == IF b = "." THEN a ELSE a \o "/" \o b

\* The mutation writes every feed into the output directory itself.
OutputFileFlat(jsonFile) ==
  PathJoin(outputDir, Basename(jsonFile, ".json") \o "-feed.xml")

\* const outputFile = path.join(outputFeedDir, `${feedId}-feed.xml`)
OutputFile(jsonFile) ==
  LET feedId == Basename(jsonFile, ".json")
      feedDirectory == Dirname(jsonFile)
      outputFeedDir == PathJoin(outputDir, feedDirectory)
  IN PathJoin(outputFeedDir, feedId \o "-feed.xml")

docVars ==
  <<clock, artists, ai, ex, feedItems, totalReleaseCount, written, rssOutput,
    san, dateVars, inFlight>>

\* The statements of the module before processArtistFiles is called:
\* fs.ensureDirSync(outputDir) and fs.ensureDirSync(artistsDir).  An
\* exception here is uncaught and ends the process with exit code 1.
Setup ==
  /\ pc = "setup"
  /\ \/ /\ pc' = "glob"
        /\ UNCHANGED <<log, exitCode>>
     \/ /\ pc' = "exited"
        /\ log' = Append(log, Message("Uncaught exception"))
        /\ exitCode' = 1
  /\ UNCHANGED <<docVars, artistsDir, jsonFiles, fileIdx, dist>>

\* glob.sync and the creation of default.json when no document is found; an
\* exception of either goes to the catch at the end of processArtistFiles.
Glob ==
  /\ pc = "glob"
  /\ \/ /\ DOMAIN artistsDir # {}
        /\ jsonFiles' \in Listings(DOMAIN artistsDir)
        /\ pc' = "files"
        /\ UNCHANGED <<artistsDir, log>>
     \/ /\ DOMAIN artistsDir = {}
        /\ artistsDir' = [f \in {"default.json"} |-> "artists"]
        /\ jsonFiles' = <<"default.json">>
        /\ pc' = "files"
        /\ log' = Append(log, Message("Created default artists file"))
     \/ /\ pc' = "return"
        /\ log' = Append(log, Message("Error processing artist files"))
        /\ UNCHANGED <<artistsDir, jsonFiles>>
  /\ UNCHANGED <<docVars, fileIdx, dist, exitCode>>

\* A line of the console about a document
MessageAbout(msg, jsonFile) == [Message(msg) EXCEPT !.about = jsonFile]

\* The mutation throws the exception again, out of the loop and into the
\* catch at the end of processArtistFiles.
CatchOfLoopRethrows(position) == "return"

\* catch (error) { console.error(`Error processing ${jsonFile}: ...`) }: the
\* run stays in the loop.
CatchOfLoop(position) == position

\* One iteration of for (const jsonFile of jsonFiles): generateFeedForFile
\* writes the feed of the document, returns without writing when the
\* document has no artists, or throws (readJson on a malformed document,
\* ensureDirSync or writeFile on any, createFeedInfoPage once the feed is
\* written), and the catch of the loop logs.
GenerateFeed ==
  /\ pc = "files"
  /\ fileIdx < Len(jsonFiles)
  /\ fileIdx' = fileIdx + 1
  /\ LET jsonFile == jsonFiles[fileIdx']
         begun == Append(log, MessageAbout("Processing artist file", jsonFile))
         feed == [path |-> OutputFile(jsonFile), from |-> jsonFile,
                  config |-> "document"]
         Threw(files) ==
           /\ log' = Append(begun, MessageAbout("Error processing", jsonFile))
           /\ dist' = files
           /\ pc' = CatchOfLoop(pc)
     IN CASE artistsDir[jsonFile] = "malformed" -> Threw(dist)
          [] artistsDir[jsonFile] = "empty" ->
               \/ /\ log' = Append(begun,
                               MessageAbout("No artists found, skipping", jsonFile))
                  /\ dist' = dist
                  /\ pc' = pc
               \/ Threw(dist)
          [] OTHER ->
               \/ /\ dist' = dist \cup {feed}
                  /\ log' = Append(begun,
                               MessageAbout("Feed info page written", jsonFile))
                  /\ pc' = pc
               \/ Threw(dist)
               \/ Threw(dist \cup {feed})
  /\ UNCHANGED <<docVars, artistsDir, jsonFiles, exitCode>>

\* await createIndexPage(jsonFiles); an exception goes to the catch at the
\* end of processArtistFiles.
CreateIndexPage ==
  /\ pc = "files"
  /\ fileIdx >= Len(jsonFiles)
  /\ pc' = "return"
  /\ \/ log' = Append(log, Message("Main index page written"))
     \/ log' = Append(log, Message("Error processing artist files"))
  /\ UNCHANGED <<docVars, artistsDir, jsonFiles, fileIdx, dist, exitCode>>

\* processArtistFiles has returned: nothing is left to run, and the process
\* ends with exit code 0.
Exit ==
  /\ pc = "return"
  /\ pc' = "exited"
  /\ exitCode' = 0
  /\ UNCHANGED <<docVars, log, artistsDir, jsonFiles, fileIdx, dist>>

InitRun ==
  /\ pc = "setup"
  /\ clock = 1
  /\ artists = <<>>
  /\ ai = 0
  /\ ex = Idle
  /\ feedItems = <<>>
  /\ totalReleaseCount = 0
  /\ written = NoDoc
  /\ rssOutput = NoRss
  /\ san = NoSan
  /\ NoDates
  /\ log = <<>>
  /\ artistsDir \in Trees
  /\ jsonFiles = <<>>
  /\ fileIdx = 0
  /\ dist = {}
  /\ exitCode = Running
  /\ inFlight = {}

NextRun ==
  \/ Setup
  \/ Glob
  \/ GenerateFeed
  \/ CreateIndexPage
  \/ Exit

SpecRun == InitRun /\ [][NextRun]_vars

(***************************************************************************)
(* The HTTP requests of a run                                              *)
(*                                                                         *)
(* await axios.get(...) is two steps here: the request is sent and the     *)
(* async function is suspended (pc = "awaiting"), then the response or the *)
(* failure of the request resumes it.  Every document of the run is read   *)
(* with one of the artists arrays of FetchDocuments.                       *)
(***************************************************************************)
FetchDocuments ==
  {<<ArtistZ>>, <<ArtistY(1), ArtistX(2)>>}

\* The documents glob.sync has reported
FetchFiles == <<"a.json", "sub/a.json">>

\* A request: the document, the artist and the grid item it is sent for
\* (item 0 is the listing page), and its URL
Request(item, url) ==
  [file |-> fileIdx, artist |-> ai, item |-> item, url |-> url]

\* The mutation sends the requests for every grid item that is left at once.
AlbumRequestsAtOnce(e, g) ==
  {Request(k, FullAlbumUrl(g.href, e.url)) : k \in (e.idx + 1)..e.itemCount}

\* axios.get(fullAlbumUrl) inside the loop: one request, for grid item i
AlbumRequests(e, g) == {Request(e.idx + 1, FullAlbumUrl(g.href, e.url))}

\* for (const jsonFile of jsonFiles): generateFeedForFile is called for the
\* next document, reads it and creates the feed.
ReadArtistsFile ==
  /\ pc \in {"files", "done"}
  /\ fileIdx < Len(jsonFiles)
  /\ fileIdx' = fileIdx + 1
  /\ artists' \in FetchDocuments
  /\ ai' = 0
  /\ ex' = Idle
  /\ feedItems' = <<>>
  /\ totalReleaseCount' = 0
  /\ written' = NoDoc
  /\ rssOutput' = NoRss
  /\ pc' = "loop"
  /\ UNCHANGED <<clock, san, dateVars, log, artistsDir, jsonFiles, dist,
                 exitCode, inFlight>>

\* const { data } = await axios.get(url) of scrapeBandcamp and of
\* scrapeSoundcloud: the request for the listing page is sent.
AxiosGetListing ==
  /\ pc = "scraping"
  /\ ex.at \in {"bcListing", "scListing"}
  /\ inFlight' = inFlight \cup {Request(0, ex.url)}
  /\ pc' = "awaiting"
  /\ UNCHANGED <<clock, artists, ai, ex, feedItems, totalReleaseCount, written,
                 rssOutput, san, dateVars, log, artistsDir, jsonFiles, fileIdx,
                 dist, exitCode>>

\* The request for the listing page is answered or fails, and the extractor
\* goes on.
ListingResponse ==
  /\ pc = "awaiting"
  /\ ex.at \in {"bcListing", "scListing"}
  /\ Request(0, ex.url) \in inFlight
  /\ inFlight' = inFlight \ {Request(0, ex.url)}
  /\ ex' \in ExtractorStep(ex)
  /\ clock' = ex'.now
  /\ log' = IF ex'.error # "" THEN Append(log, Message(ex'.error)) ELSE log
  /\ pc' = "scraping"
  /\ UNCHANGED <<artists, ai, feedItems, totalReleaseCount, written, rssOutput,
                 san, dateVars, artistsDir, jsonFiles, fileIdx, dist, exitCode>>

\* The loop body on a grid item with an href, up to
\* await axios.get(fullAlbumUrl): the request for the detail page is sent.
AxiosGetAlbum ==
  /\ pc = "scraping"
  /\ ex.at = "bcItem"
  /\ ex.idx < ex.itemCount
  /\ \E g \in GridItems :
       /\ g.href # Undefined
       /\ inFlight' = inFlight \cup AlbumRequests(ex, g)
  /\ pc' = "awaiting"
  /\ UNCHANGED <<clock, artists, ai, ex, feedItems, totalReleaseCount, written,
                 rssOutput, san, dateVars, log, artistsDir, jsonFiles, fileIdx,
                 dist, exitCode>>

\* The request for the detail page is answered or fails, and the rest of the
\* loop body runs, up to the delay or the continue.
AlbumResponse ==
  /\ pc = "awaiting"
  /\ ex.at = "bcItem"
  /\ \E r \in inFlight, g \in GridItems :
       /\ g.href # Undefined
       /\ r = Request(ex.idx + 1, FullAlbumUrl(g.href, ex.url))
       /\ inFlight' = inFlight \ {r}
       /\ ex' \in BandcampItemOn(ex, g)
  /\ clock' = ex'.now
  /\ pc' = "scraping"
  /\ UNCHANGED <<artists, ai, feedItems, totalReleaseCount, written, rssOutput,
                 san, dateVars, log, artistsDir, jsonFiles, fileIdx, dist,
                 exitCode>>

\* The loop body on a grid item without href: albumUrl.startsWith throws
\* before any request is sent.
AlbumUrlThrows ==
  /\ pc = "scraping"
  /\ ex.at = "bcItem"
  /\ ex.idx < ex.itemCount
  /\ \E g \in GridItems :
       /\ g.href = Undefined
       /\ ex' \in BandcampItemOn(ex, g)
  /\ clock' = ex'.now
  /\ log' = Append(log, Message(ex'.error))
  /\ UNCHANGED <<pc, artists, ai, feedItems, totalReleaseCount, written,
                 rssOutput, san, dateVars, artistsDir, jsonFiles, fileIdx, dist,
                 exitCode, inFlight>>

InitFetch ==
  /\ pc = "files"
  /\ clock = MaxClock
  /\ artists = <<>>
  /\ ai = 0
  /\ ex = Idle
  /\ feedItems = <<>>
  /\ totalReleaseCount = 0
  /\ written = NoDoc
  /\ rssOutput = NoRss
  /\ san = NoSan
  /\ NoDates
  /\ log = <<>>
  /\ artistsDir = <<>>
  /\ jsonFiles = FetchFiles
  /\ fileIdx = 0
  /\ dist = {}
  /\ exitCode = Running
  /\ inFlight = {}

NextFetch ==
  \/ ReadArtistsFile
  \/ NextArtist
  \/ AxiosGetListing
  \/ ListingResponse
  \/ AxiosGetAlbum
  \/ AlbumResponse
  \/ AlbumUrlThrows
  \/ BandcampDelay
  \/ BandcampReturn
  \/ SoundcloudItem
  \/ SoundcloudReturn
  \/ FilterAndAdd
  \/ WriteFeed

SpecFetch == InitFetch /\ [][NextFetch]_vars

(***************************************************************************)
(* The earlier scraper (unnamed/part_000): scrapeBandcamp and              *)
(* scrapeSoundcloud with their alternate selectors                         *)
(*                                                                         *)
(* The activation is at "earlierListing" while the listing page is         *)
(* fetched, at "primary" inside the each loop of the first selector        *)
(* (.music-grid-item, .soundList__item) and at "alternate" inside that of  *)
(* the second (.collection-item-container, .trackList__item); n and idx    *)
(* are the number of elements the selector matched and the number dealt    *)
(* with, and seen says for each element whether a release was pushed.      *)
(***************************************************************************)
\* Elements the first selector can match
PrimaryElements ==
  [title : {"LP", ""},
   href : {"/album/a", "https://x.bandcamp.com/album/d", Undefined},
   image : {""},
   dateText : {"", "released January 1, 2020", "released soon"}]

\* Elements the second selector can match
AlternateElements ==
  [title : {"Tape", ""},
   href : {"/album/t", "https://x.bandcamp.com/album/u", Undefined},
   image : {""},
   dateText : {""}]

\* dateText.replace('released ', '')
WithoutReleased(text) ==
  IF StartsWith(text, "released ") THEN SubSeq(text, 10, Len(text)) ELSE text

\* releaseUrl.startsWith('http') ? releaseUrl : ..., for the two extractors
EarlierUrl(releaseUrl, url) ==
  IF StartsWith(releaseUrl, "http") THEN releaseUrl
  ELSE IF Platform(url) = "soundcloud" THEN "https://soundcloud.com" \o releaseUrl
  ELSE (IF EndsWith(url, "/") THEN SubSeq(url, 1, Len(url) - 1) ELSE url)
         \o releaseUrl

\* The callback of the each loops on element el: the release is pushed when
\* the element has a title and an href.  The first selector reads the date
\* of the element, with the current date for a text that does not parse;
\* the second takes the current date.
EarlierItemOn(e, el, name) ==
  LET parsed == NewDate(WithoutReleased(el.dateText))
      date == IF e.at = "primary" /\ el.dateText # "" /\ ~IsNaN(parsed)
              THEN parsed ELSE e.now
      kept == el.title # "" /\ el.href # Undefined
      kind == IF Platform(e.url) = "soundcloud" THEN "Track" ELSE "Release"
  IN [e EXCEPT !.idx = e.idx + 1,
        !.releases =
          IF kept
          THEN Append(e.releases,
                 [title |-> el.title, url |-> EarlierUrl(el.href, e.url),
                  date |-> date, image |-> el.image,
                  description |-> kind \o " by " \o name \o ": " \o el.title])
          ELSE e.releases,
        !.seen = Append(e.seen, IF kept THEN e.at ELSE "skipped")]

\* The mutation tries the second selector whatever the first has given.
TryAlternateAlways(releases) == TRUE

\* if (releases.length === 0)
TryAlternate(releases) == Len(releases) = 0

\* return releases.length > 0 ? releases : [{ title: "No Releases Found" ... }]
EarlierResult(e, name) ==
  IF Len(e.releases) > 0 THEN e.releases
  ELSE IF Platform(e.url) = "soundcloud"
  THEN <<Synthetic("No Tracks Found", e.url, e.now,
           "Could not find any tracks for " \o name
             \o " on SoundCloud. Check back later!")>>
  ELSE <<Synthetic("No Releases Found", e.url, e.now,
           "Could not find any releases for " \o name
             \o " on Bandcamp. Check back later!")>>

\* scrapeArtistReleases(artist) of the earlier scraper, up to the await of
\* axios.get(url)
EarlierBegin ==
  /\ pc = "loop"
  /\ ai < Len(artists)
  /\ ai' = ai + 1
  /\ ex' = [Idle EXCEPT !.at = "earlierListing", !.url = artists[ai'].url,
                        !.now = clock]
  /\ pc' = "scraping"
  /\ UNCHANGED <<clock, artists, feedItems, totalReleaseCount, written,
                 rssOutput, san, log, dateVars, runVars>>

\* await axios.get(url): the fetch fails and the catch returns the error
\* stand-in, or the page is loaded and the first selector is applied.
EarlierListing ==
  /\ pc = "scraping"
  /\ ex.at = "earlierListing"
  /\ \E t \in Later(ex.now) :
       \/ ex' = IF Platform(ex.url) = "soundcloud"
                THEN [Return(ex, <<Synthetic("Error Reading SoundCloud", ex.url, t,
                          "Error fetching SoundCloud tracks for "
                            \o artists[ai].name)>>, t)
                        EXCEPT !.error = "Error scraping SoundCloud"]
                ELSE [Return(ex, <<Synthetic("Error Reading Bandcamp", ex.url, t,
                          "Error fetching Bandcamp releases for "
                            \o artists[ai].name)>>, t)
                        EXCEPT !.error = "Error scraping Bandcamp"]
       \/ \E n \in 0..MaxGrid : ex' = [ex EXCEPT !.at = "primary", !.n = n, !.now = t]
  /\ clock' = ex'.now
  /\ log' = IF ex'.error # "" THEN Append(log, Message(ex'.error)) ELSE log
  /\ UNCHANGED <<pc, artists, ai, feedItems, totalReleaseCount, written,
                 rssOutput, san, dateVars, runVars>>

\* One call of the callback of the first each loop
PrimaryItem ==
  /\ pc = "scraping"
  /\ ex.at = "primary"
  /\ ex.idx < ex.n
  /\ \E el \in PrimaryElements : ex' = EarlierItemOn(ex, el, artists[ai].name)
  /\ UNCHANGED <<pc, clock, artists, ai, feedItems, totalReleaseCount, written,
                 rssOutput, san, log, dateVars, runVars>>

\* The first each loop is over: the second selector is applied when no
\* release was pushed, and the result is returned otherwise.
PrimaryDone ==
  /\ pc = "scraping"
  /\ ex.at = "primary"
  /\ ex.idx >= ex.n
  /\ IF TryAlternate(ex.releases)
     THEN \E n \in 0..MaxGrid :
            ex' = [ex EXCEPT !.at = "alternate", !.n = n, !.idx = 0]
     ELSE ex' = Return(ex, EarlierResult(ex, artists[ai].name), ex.now)
  /\ UNCHANGED <<pc, clock, artists, ai, feedItems, totalReleaseCount, written,
                 rssOutput, san, log, dateVars, runVars>>

\* One call of the callback of the second each loop
AlternateItem ==
  /\ pc = "scraping"
  /\ ex.at = "alternate"
  /\ ex.idx < ex.n
  /\ \E el \in AlternateElements : ex' = EarlierItemOn(ex, el, artists[ai].name)
  /\ UNCHANGED <<pc, clock, artists, ai, feedItems, totalReleaseCount, written,
                 rssOutput, san, log, dateVars, runVars>>

\* The second each loop is over: the result is returned.
AlternateDone ==
  /\ pc = "scraping"
  /\ ex.at = "alternate"
  /\ ex.idx >= ex.n
  /\ ex' = Return(ex, EarlierResult(ex, artists[ai].name), ex.now)
  /\ UNCHANGED <<pc, clock, artists, ai, feedItems, totalReleaseCount, written,
                 rssOutput, san, log, dateVars, runVars>>

InitEarlier ==
  /\ pc = "loop"
  /\ clock = 1
  /\ artists \in {<<ArtistX(0)>>, <<ArtistY(0)>>}
  /\ ai = 0
  /\ ex = Idle
  /\ feedItems = <<>>
  /\ totalReleaseCount = 0
  /\ written = NoDoc
  /\ rssOutput = NoRss
  /\ san = NoSan
  /\ log = <<>>
  /\ NoDates
  /\ NoRun

NextEarlier ==
  \/ EarlierBegin
  \/ EarlierListing
  \/ PrimaryItem
  \/ PrimaryDone
  \/ AlternateItem
  \/ AlternateDone

SpecEarlier == InitEarlier /\ [][NextEarlier]_vars

(***************************************************************************)
(* Properties                                                              *)
(***************************************************************************)
IsWritten == written.kind # "none"

\* The items of the written document that stand for a release
ReleaseItems == {j \in 1..Len(written.items) : written.items[j].artist # 0}

HasPlaceholderMark(title, url) ==
  \/ Includes(title, "Sample")
  \/ Includes(title, "Error Reading")
  \/ Includes(title, "Example")
  \/ Includes(title, "Demo")
  \/ Includes(url, "example.com")
  \/ ~Includes(url, ".")

IsValidDate(d) == d >= 0

\* C1: every feed document generateFeedForFile writes contains at least one
\* item, also when feed.addItem throws for releases that passed the filter.
C1_WrittenFeedHasItem == IsWritten => Len(written.items) >= 1

\* C2: no item of the feed, and no item of a written document, comes from a
\* candidate whose title contains Sample, Error Reading, Example or Demo, or
\* whose URL contains example.com or no dot, whether the document is the
\* output of feed.rss2() or the manual serialization.
C2_NoPlaceholderInFeed ==
  /\ \A j \in 1..Len(feedItems) :
       ~HasPlaceholderMark(feedItems[j].release.title, feedItems[j].release.url)
  /\ \A j \in ReleaseItems :
       ~HasPlaceholderMark(written.items[j].release.title,
                           written.items[j].release.url)

\* C2 witness: the extractor returned a candidate that carries a mark, and a
\* manually serialized document with an item has been written.
C2_Witness ==
  /\ written.kind = "manual"
  /\ ReleaseItems # {}
  /\ \E j \in 1..Len(ex.releases) :
       HasPlaceholderMark(ex.releases[j].title, ex.releases[j].url)

\* C3: the written feed holds the No Releases Found item exactly when the
\* number of real releases of the group is zero, and then nothing else;
\* otherwise it holds the real releases, all of them, and no placeholder.
C3_PlaceholderIffNoRealRelease ==
  IsWritten =>
    IF totalReleaseCount = 0
    THEN /\ Len(written.items) = 1
         /\ written.items[1].title = "No Releases Found"
    ELSE /\ ReleaseItems = 1..Len(written.items)
         /\ Len(written.items) = totalReleaseCount

\* C4, as claimed: every release an extractor holds and every item of the
\* feed has a date that is not later than the clock.
C4_NoFutureDateAnywhere ==
  /\ \A j \in 1..Len(ex.releases) : ex.releases[j].date <= clock
  /\ \A j \in 1..Len(feedItems) : feedItems[j].date <= clock

\* C4, amended: every release scrapeBandcamp holds, and every feed item of a
\* Bandcamp artist, has a valid date that is not later than the clock.
C4_NoFutureBandcampRelease ==
  /\ Platform(ex.url) = "bandcamp" =>
       \A j \in 1..Len(ex.releases) :
         IsValidDate(ex.releases[j].date) /\ ex.releases[j].date <= clock
  /\ \A j \in 1..Len(feedItems) :
       Platform(artists[feedItems[j].artist].url) = "bandcamp" =>
         IsValidDate(feedItems[j].date) /\ feedItems[j].date <= clock

\* C4 witness: scrapeBandcamp has returned real releases after it dropped a
\* candidate dated in the future.
C4_Witness ==
  /\ ex.at = "returned"
  /\ Platform(ex.url) = "bandcamp"
  /\ \E j \in 1..Len(ex.seen) : ex.seen[j] = "future"
  /\ \E j \in 1..Len(ex.releases) : ex.releases[j].title = "LP"

\* C5: every release an extractor holds and every item of the feed carries
\* a valid date.
C5_EveryDateValid ==
  /\ \A j \in 1..Len(ex.releases) : IsValidDate(ex.releases[j].date)
  /\ \A j \in 1..Len(feedItems) : IsValidDate(feedItems[j].date)

\* C6: in a written document the items with a valid date appear newest
\* first.
C6_WrittenNewestFirst ==
  \A i, j \in ReleaseItems :
    (i < j /\ IsValidDate(written.items[i].pubDate)
           /\ IsValidDate(written.items[j].pubDate))
      => written.items[i].pubDate >= written.items[j].pubDate

\* C7: no two items of a written document come from releases with the same
\* URL.
C7_WrittenUrlsDistinct ==
  \A i, j \in ReleaseItems :
    i # j => written.items[i].release.url # written.items[j].release.url

\* C8: the feed holds at most maxReleases items of an artist, 2 when the
\* artist record does not specify maxReleases.
C8_AtMostMaxReleasesPerArtist ==
  \A k \in 1..ai :
    Cardinality({j \in 1..Len(feedItems) : feedItems[j].artist = k})
      <= (IF artists[k].maxReleases = 0 THEN 2 ELSE artists[k].maxReleases)

\* C8 witness: the listing exposed more items than the default of 2, and the
\* document written holds exactly 2 items of the artist.
C8_Witness ==
  /\ pc = "done"
  /\ ai = 1
  /\ artists[1].maxReleases = 0
  /\ ex.n > 2
  /\ Cardinality(ReleaseItems) = 2

BandcampReturned == ex.at = "returned" /\ Platform(ex.url) = "bandcamp"

IsSyntheticResult(rs) ==
  Len(rs) = 1 /\ rs[1].title \in {"Sample Bandcamp Release", "Error Reading Bandcamp"}

NumFuture(outcomes) ==
  Cardinality({j \in 1..Len(outcomes) : outcomes[j] = "future"})

C10_RoundTrip == pc = "decoded" => san.decoded = san.input

\* C10, amended: decoding the sanitized string gives the original back for
\* a title, a description, and a URL that holds no equals sign.
C10_RoundTripWithoutEquals ==
  (pc = "decoded" /\ (san.kind # "url" \/ ~Includes(san.input, "=")))
    => san.decoded = san.input

\* C10 witness: a URL with an ampersand and a quote went through the chain
\* and the decoder.
C10_Witness ==
  /\ pc = "decoded"
  /\ san.kind = "url"
  /\ san.input = "&lt'"
  /\ san.safe = "&amp;lt&apos;"
  /\ san.decoded = san.input

\* The lines of the console that report on an artist
AddedLines == SelectSeq(log, LAMBDA l : l.msg = "Added")

RECURSIVE SumAdded(_)
SumAdded(lines) ==
  IF lines = <<>> THEN 0 ELSE Head(lines).added + SumAdded(Tail(lines))

\* The extractor has returned from its catch
ExtractorFailed == ex.at = "returned" /\ ex.error # ""

\* C11: an extractor that fails returns exactly one error candidate with the
\* URL of the artist and a description, the loop goes on to the end of the
\* artists array, and the real releases of every artist are counted and
\* handed to the feed.
C11_FailureIsolated ==
  /\ ExtractorFailed =>
       /\ Len(ex.releases) = 1
       /\ Includes(ex.releases[1].title, "Error Reading")
       /\ ex.releases[1].url = ex.url
       /\ ex.releases[1].url = artists[ai].url
       /\ ex.releases[1].description = "Could not retrieve releases"
  /\ pc \in {"loop", "done"} =>
       /\ Len(AddedLines) = ai
       /\ \A k \in 1..ai : AddedLines[k].about = artists[k].name
       /\ SumAdded(AddedLines) = totalReleaseCount
       /\ \A j \in 1..Len(log) :
            (log[j].msg \in {"Error scraping Bandcamp", "Error scraping SoundCloud"})
              => /\ j < Len(log)
                 /\ log[j + 1].msg = "Added"
                 /\ log[j + 1].added = 0
                 /\ log[j + 1].filtered = 1
  /\ pc = "done" => ai = Len(artists)

\* C11 witness: scrapeBandcamp failed for the first artist of a group, and
\* the document written holds a release of the second artist.
C11_Witness ==
  /\ pc = "done"
  /\ Len(artists) = 2
  /\ log[1].msg = "Error scraping Bandcamp"
  /\ log[2] = [msg |-> "Added", about |-> "X", added |-> 0, filtered |-> 1]
  /\ log[3].added > 0
  /\ \E j \in ReleaseItems : written.items[j].artist = 2

\* generateFeedForFile has come to its end: it returned or threw
Ended == pc \in {"skipped", "threw", "done"}

\* C12: whenever generateFeedForFile has come to its end, for a document
\* without artists and for a document that is not JSON as well, a feed
\* document has been written.
C12_EveryPathWritesFeed == Ended => IsWritten

\* The documents the loop over jsonFiles has dealt with
Processed == {jsonFiles[k] : k \in 1..fileIdx}

HasLogged(msg) == \E j \in 1..Len(log) : log[j].msg = msg

\* C13: a run that finds no document creates the default one, a document
\* that is not JSON is processed with the built-in default configuration,
\* so that its feed is written, and no document makes the process fail.
C13_ConfigErrorDegradesToDefault ==
  /\ pc \in {"files"} => jsonFiles # <<>>
  /\ \A f \in Processed :
       (artistsDir[f] = "malformed") =>
         \E d \in dist : d.from = f /\ d.config = "default"
  /\ (exitCode # Running /\ ~HasLogged("Uncaught exception")) => exitCode = 0

\* The whole pipeline has failed: the directories could not be created, no
\* document was found or created, or not one document could be read.
PipelineFailed ==
  \/ HasLogged("Uncaught exception")
  \/ jsonFiles = <<>>
  \/ \A k \in 1..Len(jsonFiles) : artistsDir[jsonFiles[k]] = "malformed"

\* C14: the process ends with a non-zero exit code exactly when the whole
\* pipeline has failed.
C14_ExitCodeReportsFailure ==
  exitCode # Running => (exitCode # 0 <=> PipelineFailed)

\* C16: every feed file written is <output directory>/<dir>/<base>-feed.xml
\* for the directory and base name of the document it was made from, and no
\* two documents of a run write to the same feed path.
C16_OneFeedPathPerDocument ==
  /\ \A d \in dist :
       /\ StartsWith(d.path, outputDir \o "/")
       /\ EndsWith(d.path, "-feed.xml")
       /\ SubSeq(d.path, Len(outputDir) + 2, Len(d.path) - Len("-feed.xml"))
            \o ".json" = d.from
  /\ \A d1, d2 \in dist : d1.path = d2.path => d1.from = d2.from

\* C16 witness: two documents with the same base name in different
\* directories have both had their feed written.
C16_Witness ==
  /\ pc = "exited"
  /\ \E d \in dist : d.from = "a.json" /\ d.path = "dist/a-feed.xml"
  /\ \E d \in dist : d.from = "sub/a.json" /\ d.path = "dist/sub/a-feed.xml"

\* The releases the items of the feed and of the written document come from
Published ==
  {feedItems[j].release : j \in 1..Len(feedItems)}
    \cup {written.items[j].release : j \in ReleaseItems}

StrategyValues(page) ==
  <<IF FirstDated(page.ld, 1) = 0 THEN "" ELSE page.ld[FirstDated(page.ld, 1)],
    page.credits, page.alt, page.meta, page.body>>

RECURSIVE FirstParseable(_, _)
FirstParseable(values, t) ==
  IF values = <<>> THEN t
  ELSE IF Head(values) # "" /\ ~IsNaN(NewDate(Head(values)))
       THEN NewDate(Head(values))
       ELSE FirstParseable(Tail(values), t)

\* C17: the date resolved for a detail page is the value of the first
\* strategy, in the order ld+json, credits, about-release-date, meta tag,
\* body text, whose value parses to a valid date, and the current time (a
\* reading of the clock of the run) when there is none.
C17_FirstParseableStrategyWins ==
  pc \in {"pushed", "future", "caught"} =>
    IF FirstParseable(StrategyValues(albumPage), NoDate) = NoDate
    THEN resolvedDate \in 1..clock
    ELSE resolvedDate = FirstParseable(StrategyValues(albumPage), NoDate)

\* The grid items scrapeBandcamp has pushed a release for
NumKept(outcomes) ==
  Cardinality({j \in 1..Len(outcomes) :
                 outcomes[j] \in {"pushed", "fetchFailed", "caught"}})

\* C18: when scrapeBandcamp returns, every one of the first min(n, m) grid
\* items has been dealt with, and the releases pushed for the items before
\* and after a grid item without href are all returned.
C18_ParseErrorSkipsOneCandidate ==
  BandcampReturned =>
    /\ Len(ex.seen) = ItemCount(ex.n, ex.max)
    /\ NumKept(ex.seen) > 0 =>
         /\ ~IsSyntheticResult(ex.releases)
         /\ Len(ex.releases) = NumKept(ex.seen)

\* C19: when the fetch of a detail page has failed, scrapeBandcamp returns
\* a release for that grid item, with an absolute URL, the default
\* description and a date that is not later than the clock, and it has gone
\* on to the grid items after it.
C19_FetchFailureKeepsCandidate ==
  (BandcampReturned /\ \E j \in 1..Len(ex.seen) : ex.seen[j] = "fetchFailed") =>
    /\ Len(ex.seen) = ItemCount(ex.n, ex.max)
    /\ \E j \in 1..Len(ex.releases) :
         /\ ex.releases[j].title \in {g.title : g \in GridItems}
         /\ StartsWith(ex.releases[j].url, "http")
         /\ ex.releases[j].description = "New release by artist"
         /\ IsValidDate(ex.releases[j].date)
         /\ ex.releases[j].date <= clock

\* The extractor an activation belongs to
Extractor(e) ==
  CASE e.at = "bcListing" -> "scrapeBandcamp"
    [] e.at = "scListing" -> "scrapeSoundcloud"
    [] e.at = "returned" /\ e.releases[1].title = "Sample Spotify Release" ->
         "scrapeSpotify"
    [] e.at = "returned" /\ e.releases[1].title = "Sample Release" -> "fallback"
    [] OTHER -> "none"

\* The host of a URL: what stands between "://" and the next "/"
Host(url) ==
  LET start == IndexOf(url, "://", 1) + 3
      slash == IndexOf(url, "/", start)
  IN SubSeq(url, start, IF slash = 0 THEN Len(url) ELSE slash - 1)

\* The first marker, in the order bandcamp.com, soundcloud.com, spotify.com,
\* that the text contains, as the extractor it stands for
FirstMarker(text) ==
  CASE Includes(text, "bandcamp.com") -> "scrapeBandcamp"
    [] ~Includes(text, "bandcamp.com") /\ Includes(text, "soundcloud.com") ->
         "scrapeSoundcloud"
    [] ~Includes(text, "bandcamp.com") /\ ~Includes(text, "soundcloud.com")
         /\ Includes(text, "spotify.com") -> "scrapeSpotify"
    [] OTHER -> "fallback"

\* C20, as claimed: the selected extractor is that of the first marker the
\* host of the artist URL contains, and the fallback when the host contains
\* none.
C20_DispatchByHost ==
  pc = "scraping" => Extractor(ex) = FirstMarker(Host(artists[ai].url))

\* C20, amended: the selected extractor is that of the first marker the
\* artist URL contains anywhere, and the fallback when the URL contains none.
C20_DispatchByUrl ==
  pc = "scraping" => Extractor(ex) = FirstMarker(artists[ai].url)

\* C20 witness: a URL with the host of SoundCloud that names bandcamp.com in
\* its path has been handed to scrapeBandcamp.
C20_Witness ==
  /\ pc = "scraping"
  /\ artists[ai].url = "https://soundcloud.com/bandcamp.com"
  /\ Extractor(ex) = "scrapeBandcamp"

\* C21: a written feed whose item list is not empty holds one item per
\* item of the feed, in the order of the feed: the manual serialization when
\* the output of feed.rss2() has no <item> although the feed has items, and
\* the output of feed.rss2() as it is otherwise.
C21_ManualFallbackKeepsEveryItem ==
  (IsWritten /\ rssOutput.made) =>
    /\ IF ~HasItems(rssOutput) /\ Len(feedItems) > 0
       THEN /\ written.kind = "manual"
            /\ Len(written.items) = Len(feedItems)
            /\ \A j \in 1..Len(feedItems) :
                 /\ written.items[j].title = feedItems[j].title
                 /\ written.items[j].link = feedItems[j].link
                 /\ written.items[j].guid = feedItems[j].id
                 /\ written.items[j].pubDate = feedItems[j].date
                 /\ written.items[j].description = feedItems[j].description
       ELSE written = [kind |-> "rss2", items |-> rssOutput.items]
    /\ Len(feedItems) > 0 => Len(written.items) = Len(feedItems)

\* C21 witness: feed.rss2() left out the two items of the feed, and the
\* manual serialization with both, in their order, has been written.
C21_Witness ==
  /\ pc = "done"
  /\ rssOutput.made
  /\ rssOutput.items = <<>>
  /\ Len(feedItems) = 2
  /\ written.kind = "manual"
  /\ written.items[1].link = feedItems[1].link
  /\ written.items[2].link = feedItems[2].link
  /\ feedItems[1].link # feedItems[2].link

\* The lines of the console that open the processing of a document
ProcessingLines == SelectSeq(log, LAMBDA l : l.msg = "Processing artist file")

\* generateFeedForFile threw for the document
ThrewFor(f) ==
  \E j \in 1..Len(log) : log[j] = MessageAbout("Error processing", f)

\* The loop over jsonFiles has been entered and left
LoopLeft == pc \in {"return", "exited"} /\ jsonFiles # <<>>

\* C22: an exception of generateFeedForFile for one document leaves the
\* loop running: the documents are taken up one by one in the order of
\* jsonFiles, the loop is left only after the last of them, the feed of every
\* document with artists for which nothing was thrown is written, and
\* createIndexPage is called after the loop.
C22_FeedErrorIsolated ==
  /\ Len(ProcessingLines) = fileIdx
  /\ \A k \in 1..fileIdx : ProcessingLines[k].about = jsonFiles[k]
  /\ LoopLeft =>
       /\ fileIdx = Len(jsonFiles)
       /\ log[Len(log)].msg \in {"Main index page written",
                                 "Error processing artist files"}
  /\ \A f \in Processed :
       (artistsDir[f] = "artists" /\ ~ThrewFor(f)) =>
         \E d \in dist : d.from = f /\ d.path = OutputFile(f)

\* C22 witness: generateFeedForFile threw for the first of two documents,
\* the feed of the second has been written, and so has the index page.
C22_Witness ==
  /\ pc = "exited"
  /\ Len(jsonFiles) = 2
  /\ ThrewFor(jsonFiles[1])
  /\ ~ThrewFor(jsonFiles[2])
  /\ \E d \in dist : d.from = jsonFiles[2]
  /\ ~ \E d \in dist : d.from = jsonFiles[1]
  /\ log[Len(log)].msg = "Main index page written"

\* C23: at most one request is in flight, and only while the run is
\* suspended on it; it is a request of the document and the artist the run
\* is at, for the listing page or for the grid item that follows the ones
\* dealt with; and while an artist is being scraped the feed holds items of
\* the artists before it only.
C23_OneFetchInFlight ==
  /\ Cardinality(inFlight) <= 1
  /\ inFlight # {} <=> pc = "awaiting"
  /\ \A r \in inFlight :
       /\ r.file = fileIdx
       /\ r.artist = ai
       /\ r.item = 0 => ex.at \in {"bcListing", "scListing"}
       /\ r.item > 0 =>
            /\ ex.at = "bcItem"
            /\ r.item = ex.idx + 1
            /\ Len(ex.seen) = ex.idx
  /\ pc \in {"scraping", "awaiting"} =>
       \A j \in 1..Len(feedItems) : feedItems[j].artist < ai
  /\ \A j, k \in 1..Len(feedItems) :
       j < k => feedItems[j].artist <= feedItems[k].artist

\* C23 witness: the request for the detail page of the second grid item of
\* the second artist of the second document is the one in flight, after a
\* release of the first artist was added to the feed.
C23_Witness ==
  /\ pc = "awaiting"
  /\ fileIdx = 2
  /\ ai = 2
  /\ ex.idx = 1
  /\ Len(feedItems) > 0
  /\ \E r \in inFlight : r.item = 2

\* C24: scrapeBandcamp goes from one grid item to the next one it fetches
\* the detail page of through the delay only, whether the release of the
\* earlier item was pushed, dropped as a future one, or pushed by the catch.
C24_DelayBetweenDetailFetches ==
  [][(/\ ex.at \in {"bcItem", "bcDelay"}
      /\ ex'.at = "bcItem"
      /\ ex'.idx = ex.idx + 1
      /\ ex'.idx < ex'.itemCount)
       => ex.at = "bcDelay"]_vars

\* The text holds none of < > " ' and every & of it begins one of the five
\* entities
Escaped(text) ==
  \A k \in 1..Len(text) :
    /\ SubSeq(text, k, k) \notin {"<", ">", "\"", "'"}
    /\ SubSeq(text, k, k) = "&" =>
         \E entity \in {"&amp;", "&lt;", "&gt;", "&quot;", "&apos;"} :
           SubSeq(text, k, k + Len(entity) - 1) = entity

\* Escaped, and without a literal =
EscapedUrl(text) == Escaped(text) /\ ~Includes(text, "=")

\* C25: in a manually serialized document the title, the link and the guid
\* of every item, its description text and the URL of its enclosure have
\* the characters & < > " ' escaped, and the URLs hold no literal =.
C25_WrittenFieldsEscaped ==
  written.kind = "manual" =>
    \A j \in ReleaseItems :
      /\ Escaped(written.items[j].title)
      /\ EscapedUrl(written.items[j].link)
      /\ EscapedUrl(written.items[j].guid)
      /\ EscapedUrl(written.items[j].enclosure)
      /\ written.items[j].release.image = "" =>
           Escaped(written.items[j].description)

\* The elements for which a selector of the earlier scraper pushed a release
NumPushed(outcomes, selector) ==
  Cardinality({j \in 1..Len(outcomes) : outcomes[j] = selector})

\* C26: in scrapeBandcamp and scrapeSoundcloud of the earlier scraper the
\* second selector is applied only when the first has pushed no release, and
\* the releases returned all come from one selector: from the first when it
\* pushed any, from the second otherwise.
C26_AlternateOnlyAfterEmptyPrimary ==
  /\ (ex.at = "alternate" \/ NumPushed(ex.seen, "alternate") > 0) =>
       NumPushed(ex.seen, "primary") = 0
  /\ (ex.at = "returned" /\ ex.error = "") =>
       IF NumPushed(ex.seen, "primary") > 0
       THEN /\ Len(ex.releases) = NumPushed(ex.seen, "primary")
            /\ \A j \in 1..Len(ex.releases) :
                 ex.releases[j].title \in {el.title : el \in PrimaryElements}
       ELSE IF NumPushed(ex.seen, "alternate") > 0
       THEN /\ Len(ex.releases) = NumPushed(ex.seen, "alternate")
            /\ \A j \in 1..Len(ex.releases) :
                 ex.releases[j].title \in {el.title : el \in AlternateElements}
       ELSE /\ Len(ex.releases) = 1
            /\ ex.releases[1].title \in {"No Releases Found", "No Tracks Found"}

\* C26 witness: the first selector matched an element without a title, the
\* second was applied, and its release is the result.
C26_Witness ==
  /\ ex.at = "returned"
  /\ Len(ex.seen) = 2
  /\ ex.seen[1] = "skipped"
  /\ ex.seen[2] = "alternate"
  /\ Len(ex.releases) = 1
  /\ ex.releases[1].title = "Tape"

\* The strategies left releaseDate unset or invalid on the page, and the
\* fallback to the current date was taken
FellBack(page) == Unset(StrategyDate(page)) /\ ~CreditsThrows(page)

\* C27: a release whose date fell back to the current time is not skipped
\* as a future release: it is pushed, with a date that is not later than the
\* time of the comparison.
C27_FallbackDateNeverFuture ==
  (pc \in {"pushed", "future"} /\ FellBack(albumPage)) =>
    /\ pc = "pushed"
    /\ IsValidDate(resolvedDate)
    /\ resolvedDate <= clock

\* C27 witness: the meta tag of the page held a text that is no date, the
\* fallback was read before the clock moved on, and the release was pushed.
C27_Witness ==
  /\ pc = "pushed"
  /\ FellBack(albumPage)
  /\ albumPage.meta = "soon"
  /\ resolvedDate < clock

\* scrapeBandcamp is running or has returned
InBandcamp == Platform(ex.url) = "bandcamp" /\ ex.at \in {"bcItem", "bcDelay", "returned"}

\* C28: scrapeBandcamp never deals with more than the first min(n, m) grid
\* items; when it returns from the loop it has dealt with exactly those, a
\* grid item dropped as a future release is not made up for by a later one,
\* and when every one of them was dropped the sample candidate alone is
\* returned, whatever the listing holds beyond them.
C28_CapBeforeFutureFilter ==
  InBandcamp =>
    LET k == IF ex.n < ex.max THEN ex.n ELSE ex.max IN
    /\ Len(ex.seen) <= k
    /\ ex.idx <= k
    /\ (ex.at = "returned" /\ ex.error = "") =>
         /\ Len(ex.seen) = k
         /\ IF NumFuture(ex.seen) = k
            THEN /\ Len(ex.releases) = 1
                 /\ ex.releases[1].title = "Sample Bandcamp Release"
                 /\ ex.releases[1].url = ex.url
            ELSE /\ Len(ex.releases) = k - NumFuture(ex.seen)
                 /\ \A j \in 1..Len(ex.releases) :
                      ex.releases[j].title \in {g.title : g \in GridItems}

\* C28 witness: the listing exposed three grid items, the first two, as many
\* as maxReleases, were dropped as future releases, and the sample candidate
\* was returned.
C28_Witness ==
  /\ BandcampReturned
  /\ ex.n = 3
  /\ ex.max = 2
  /\ ex.seen = <<"future", "future">>
  /\ Len(ex.releases) = 1
  /\ ex.releases[1].title = "Sample Bandcamp Release"

\* The candidate is one of the stand-ins of the extractors of the pipeline
IsStandIn(c, artist) == \E t \in 1..MaxClock : c \in StandIns(artist, t)

\* C29: the loop over the artists goes on only once the extractor has
\* returned, and what an extractor returns is never empty: it is one
\* stand-in alone, or the releases it pushed and no stand-in; it is one
\* stand-in alone whenever it pushed nothing or ended in its catch.
C29_ExtractorReturnsNonEmpty ==
  /\ (pc \in {"loop", "done"} /\ ai > 0) => ex.at = "returned"
  /\ ex.at = "returned" =>
       /\ Len(ex.releases) >= 1
       /\ \/ /\ Len(ex.releases) = 1
             /\ IsStandIn(ex.releases[1], artists[ai])
          \/ /\ \A j \in 1..Len(ex.releases) :
                  ~IsStandIn(ex.releases[j], artists[ai])
             /\ Len(ex.releases) = NumKept(ex.seen)
       /\ (NumKept(ex.seen) = 0 \/ ex.error # "") =>
            /\ Len(ex.releases) = 1
            /\ IsStandIn(ex.releases[1], artists[ai])

\* C29 witness: no element of the SoundCloud listing gave a release, and
\* scrapeSoundcloud returned its sample candidate alone.
C29_Witness ==
  /\ ex.at = "returned"
  /\ ex.seen = <<"skipped", "skipped">>
  /\ Len(ex.releases) = 1
  /\ ex.releases[1].title = "Sample SoundCloud Release"

\* The ld+json blocks of the page that parse and have a datePublished
DatedBlocks(page) ==
  {k \in 1..Len(page.ld) : page.ld[k] \notin {"", NotJson}}

\* The page without its ld+json blocks
WithoutBlocks(page) == [page EXCEPT !.ld = <<>>]

\* C30: the first ld+json block, in the order of the document, that parses
\* and has a datePublished gives the date when its value is a date, whatever
\* the blocks after it hold; blocks that do not parse or have no
\* datePublished are passed over, and a page with such blocks alone gets the
\* date it would get without them.
C30_FirstDatedBlockWins ==
  pc \in {"pushed", "future", "caught"} =>
    IF DatedBlocks(albumPage) # {}
    THEN LET k == CHOOSE j \in DatedBlocks(albumPage) :
                    \A i \in DatedBlocks(albumPage) : j <= i
         IN /\ pc # "caught"
            /\ ~IsNaN(NewDate(albumPage.ld[k])) =>
                 resolvedDate = NewDate(albumPage.ld[k])
    ELSE IF CreditsThrows(WithoutBlocks(albumPage))
    THEN pc = "caught"
    ELSE IF Unset(StrategyDate(WithoutBlocks(albumPage)))
    THEN resolvedDate \in 1..clock
    ELSE resolvedDate = StrategyDate(WithoutBlocks(albumPage))

\* C30 witness: the first block of the page was not JSON, the second was dated
\* in the past and the third in the future, and the release was pushed
\* with the date of the second.
C30_Witness ==
  /\ pc = "pushed"
  /\ albumPage.ld = <<NotJson, "January 1, 2020", "June 1, 2031">>
  /\ resolvedDate = NewDate("January 1, 2020")

====
